---- MODULE Spec2Model ----
(***************************************************************************)
(* Model of the Record Store (src/database.py, class ImageProcessingDB)    *)
(* and of the part of the Filter Library (src/processing.py, class         *)
(* Processing) that the Record Store reads: the names of its attributes.   *)
(*                                                                         *)
(* The document store is two collections keyed by primary key: images      *)
(* (image_id -> Image document) and users (user_id -> uploads dict).       *)
(* Every public method is one action; a call either returns or raises, and *)
(* what it wrote to the store before raising stays written.                *)
(***************************************************************************)
EXTENDS Integers, Sequences, FiniteSets, TLC

VARIABLES
    images,     \* collection Image: [stored image_id -> document]
    users,      \* collection User: [stored user_id -> uploads dict]
    call,       \* the last call made on the ImageProcessingDB object
    ret,        \* its outcome: the exception raised ("none") and the value
    pristine,   \* history: no stored Image was deleted or overwritten so far
    ncalls,     \* history: the number of calls made so far
    direct,     \* history: update_user_uploads was called directly and returned
    recent,     \* history: per user and lineage root, the id the user's last
                \* successful add_image in that lineage stored
    procs       \* per caller: the position and the local variables of an
                \* add_image call that runs interleaved with another one

vars == <<images, users, call, ret, pristine, ncalls, direct, recent, procs>>

(***************************************************************************)
(* Bounds of the model.                                                    *)
(***************************************************************************)
MaxCalls == 5          \* longest sequence of calls under Spec
MaxValidationCalls == 3 \* longest sequence of calls under SpecValidation
MaxHistory == 3        \* longest process_history a stored image may get
MaxChildren == 2       \* longest child_ids list a stored image may get
MaxHistoryArg == 2     \* longest list passed to update_user_uploads directly
MaxSentinelCalls == 4  \* longest sequence of calls under SpecSentinel
MaxRank == 4           \* highest rank of an array passed to the Filter Library
MaxSetupCalls == 2     \* calls made before the interleaved callers start

ImageIds == {"a", "b"}
UserIds == {"u1", "u2"}
Descriptions == {"d1"}

(***************************************************************************)
(* Python values: a type tag and a payload.                                *)
(***************************************************************************)
StrV(x) == [t |-> "str", s |-> x, n |-> 0]
IntV(k) == [t |-> "int", s |-> "", n |-> k]
PyDict(d) == [t |-> "dict", items |-> d]
PyList == [t |-> "list", items |-> <<>>]

\* isinstance(v, str) / type(v) == str
IsStr(v) == v.t = "str"
\* isinstance(v, int)
IsInt(v) == v.t = "int"

None == [none |-> TRUE]

(***************************************************************************)
(* processing.py: dir(Processing) and which attributes are callable.       *)
(***************************************************************************)
PublicOperations ==
    {"hist_eq", "contrast_stretch", "log_compression", "reverse_video",
     "blur", "sharpen", "histogram_gray"}

PrivateHelpers ==
    {"_check_image_type", "_check_image_shape", "_check_grayscale"}

\* attributes every class has; the callable ones are methods of object
InheritedCallables == {"__class__", "__eq__", "__repr__", "__str__"}
NonCallables == {"__doc__", "__module__", "__dict__", "__weakref__"}

DirProcessing ==
    PublicOperations \cup PrivateHelpers \cup {"__init__"}
        \cup InheritedCallables \cup NonCallables

Callable(name) == name \notin NonCallables

ProcessNames == DirProcessing \cup {"upload", "nonexistent_fn", ""}

(***************************************************************************)
(* Dicts (image_info, uploads) and collections are functions on their set  *)
(* of keys.                                                                *)
(***************************************************************************)
EmptyDict == <<>>

Put(d, k, v) == [x \in DOMAIN d \cup {k} |-> IF x = k THEN v ELSE d[x]]

Remove(d, k) ==
    IF DOMAIN d \ {k} = {} THEN EmptyDict
    ELSE [x \in DOMAIN d \ {k} |-> d[x]]

(***************************************************************************)
(* database.py: the lookups.  Stored ids are strings, so a key that is not *)
(* a string equals none of them.                                           *)
(***************************************************************************)
find_image(imgs, image_id) ==
    IF IsStr(image_id) /\ image_id.s \in DOMAIN imgs
    THEN imgs[image_id.s] ELSE None

find_user(usrs, user_id) ==
    IF user_id \in DOMAIN usrs THEN [user_id |-> user_id, uploads |-> usrs[user_id]]
    ELSE None

(***************************************************************************)
(* database.py: valid_process and _image_parameter_check.                  *)
(***************************************************************************)
valid_process(process) ==
    LET valid_processes ==
            {func \in DirProcessing : Callable(func)} \cup {"upload"}
    IN  process \in valid_processes

\* _image_parameter_check without the type test of processing_time
_image_parameter_check_lax(image_info) ==
    IF image_info.t # "dict" THEN "TypeError"
    ELSE LET d == image_info.items IN
      IF "image_id" \notin DOMAIN d THEN "AttributeError"
      ELSE IF ~IsStr(d["image_id"]) THEN "ValueError"
      ELSE IF "image_data" \notin DOMAIN d THEN "AttributeError"
      ELSE IF ~IsStr(d["image_data"]) THEN "TypeError"
      ELSE IF "processing_time" \notin DOMAIN d THEN "AttributeError"
      ELSE IF "process" \notin DOMAIN d THEN "AttributeError"
      ELSE IF ~IsStr(d["process"]) THEN "TypeError"
      ELSE IF ~valid_process(d["process"].s) THEN "ValueError"
      ELSE "none"

\* the exception _image_parameter_check raises, "none" when it returns
_image_parameter_check(image_info) ==
    IF image_info.t # "dict" THEN "TypeError"
    ELSE LET d == image_info.items IN
      IF "image_id" \notin DOMAIN d THEN "AttributeError"
      ELSE IF ~IsStr(d["image_id"]) THEN "ValueError"
      ELSE IF "image_data" \notin DOMAIN d THEN "AttributeError"
      ELSE IF ~IsStr(d["image_data"]) THEN "TypeError"
      ELSE IF "processing_time" \notin DOMAIN d THEN "AttributeError"
      ELSE IF ~IsInt(d["processing_time"]) THEN "TypeError"
      ELSE IF "process" \notin DOMAIN d THEN "AttributeError"
      ELSE IF ~IsStr(d["process"]) THEN "TypeError"
      ELSE IF ~valid_process(d["process"].s) THEN "ValueError"
      ELSE "none"

(***************************************************************************)
(* database.py: users.  add_user returns user_to_json(...), a dict that    *)
(* holds only user_id; update_user_uploads then reads .uploads of it.      *)
(***************************************************************************)
Outcome(imgs, usrs, raised, value) ==
    [images |-> imgs, users |-> usrs, raised |-> raised, value |-> value]

\* add_user without the test for an existing user
add_user_unchecked(imgs, usrs, user_id) ==
    Outcome(imgs, Put(usrs, user_id, EmptyDict), "none", "user_json")

add_user(imgs, usrs, user_id) ==
    LET test_user == find_user(usrs, user_id) IN
    IF test_user # None
    THEN Outcome(imgs, usrs, "ValueError", "None")
    ELSE Outcome(imgs, Put(usrs, user_id, EmptyDict), "none", "user_json")

\* update_user_uploads keyed by the most recent id instead of the root id
update_user_uploads_swapped(imgs, usrs, user_id, process_history) ==
    IF process_history = <<>>
    THEN Outcome(imgs, usrs, "IndexError", "None")
    ELSE
      LET root_id == process_history[1]
          recent_id == process_history[Len(process_history)]
          user == find_user(usrs, user_id)
      IN  IF user = None
          THEN Outcome(imgs, add_user(imgs, usrs, user_id).users,
                       "AttributeError", "None")
          ELSE Outcome(imgs,
                       [usrs EXCEPT ![user_id] = Put(user.uploads, recent_id, root_id)],
                       "none", "user_json")

\* update_user_uploads that keeps the entry a lineage already has
update_user_uploads_keep_first(imgs, usrs, user_id, process_history) ==
    IF process_history = <<>>
    THEN Outcome(imgs, usrs, "IndexError", "None")
    ELSE
      LET root_id == process_history[1]
          recent_id == process_history[Len(process_history)]
          user == find_user(usrs, user_id)
      IN  IF user = None
          THEN Outcome(imgs, add_user(imgs, usrs, user_id).users,
                       "AttributeError", "None")
          ELSE IF root_id \in DOMAIN user.uploads
          THEN Outcome(imgs, usrs, "none", "user_json")
          ELSE Outcome(imgs,
                       [usrs EXCEPT ![user_id] = Put(user.uploads, root_id, recent_id)],
                       "none", "user_json")

update_user_uploads(imgs, usrs, user_id, process_history) ==
    IF process_history = <<>>
    THEN Outcome(imgs, usrs, "IndexError", "None")
    ELSE
      LET root_id == process_history[1]
          recent_id == process_history[Len(process_history)]
          user == find_user(usrs, user_id)
      IN  IF user = None
          THEN \* user = add_user(...) is a json dict: no attribute uploads
               LET added == add_user(imgs, usrs, user_id) IN
               Outcome(imgs, added.users, "AttributeError", "None")
          ELSE Outcome(imgs,
                       [usrs EXCEPT ![user_id] = Put(user.uploads, root_id, recent_id)],
                       "none", "user_json")

(***************************************************************************)
(* database.py: images.  A document that was saved without child_ids reads *)
(* back with an empty list; save() writes the document under its primary   *)
(* key, replacing the one stored there.                                    *)
(***************************************************************************)
_add_child(imgs, child_id, parent_id) ==
    LET parent_image == find_image(imgs, parent_id) IN
    IF parent_image # None
    THEN [imgs EXCEPT ![parent_id.s].child_ids = Append(@, child_id)]
    ELSE imgs

\* a history that starts afresh at the child
InheritedHistory_forgotten(parent_image, image_id) == <<image_id>>

\* lines 63-64: the parent's list, read from the store, with the new id
InheritedHistory(parent_image, image_id) ==
    Append(parent_image.process_history, image_id)

Image(user_id, image_id, process, processing_time, description, process_history, parent_id) ==
    [image_id |-> image_id, user_id |-> user_id, process |-> process,
     processing_time |-> processing_time, description |-> description,
     process_history |-> process_history, parent_id |-> parent_id,
     child_ids |-> <<>>]

\* add_image that takes an image whose parent is not found for a root
add_image_orphan(imgs, usrs, user_id, image_info) ==
    LET checked == _image_parameter_check(image_info) IN
    IF checked # "none" THEN Outcome(imgs, usrs, checked, "None")
    ELSE
      LET d == image_info.items
          image_id == d["image_id"].s
          has_parent == "parent_id" \in DOMAIN d
                            /\ find_image(imgs, d["parent_id"]) # None
          parent_image == IF has_parent THEN find_image(imgs, d["parent_id"])
                          ELSE None
      IN
      IF has_parent /\ parent_image = None
      THEN \* parent_image.process_history of None
           Outcome(imgs, usrs, "AttributeError", "None")
      ELSE
        LET process_history ==
                IF has_parent THEN InheritedHistory(parent_image, image_id)
                ELSE <<image_id>>
            imgs1 == IF has_parent
                     THEN _add_child(imgs, image_id, d["parent_id"])
                     ELSE imgs
            parent_id == IF has_parent THEN d["parent_id"].s ELSE "root"
            processing_time ==
                IF "processing_time" \in DOMAIN d
                THEN d["processing_time"].n ELSE -1
            updated == update_user_uploads(imgs1, usrs, user_id, process_history)
            description ==
                IF "description" \notin DOMAIN d THEN "None"
                ELSE d["description"].s
            i == Image(user_id, image_id, d["process"].s, processing_time,
                       description, process_history, parent_id)
        IN
        IF updated.raised # "none"
        THEN Outcome(imgs1, updated.users, updated.raised, "None")
        ELSE Outcome(Put(imgs1, image_id, i), updated.users, "none", "image_json")

add_image(imgs, usrs, user_id, image_info) ==
    LET checked == _image_parameter_check(image_info) IN
    IF checked # "none" THEN Outcome(imgs, usrs, checked, "None")
    ELSE
      LET d == image_info.items
          image_id == d["image_id"].s
          has_parent == "parent_id" \in DOMAIN d
          parent_image == IF has_parent THEN find_image(imgs, d["parent_id"])
                          ELSE None
      IN
      IF has_parent /\ parent_image = None
      THEN \* parent_image.process_history of None
           Outcome(imgs, usrs, "AttributeError", "None")
      ELSE
        LET process_history ==
                IF has_parent THEN InheritedHistory(parent_image, image_id)
                ELSE <<image_id>>
            imgs1 == IF has_parent
                     THEN _add_child(imgs, image_id, d["parent_id"])
                     ELSE imgs
            parent_id == IF has_parent THEN d["parent_id"].s ELSE "root"
            processing_time ==
                IF "processing_time" \in DOMAIN d
                THEN d["processing_time"].n ELSE -1
            updated == update_user_uploads(imgs1, usrs, user_id, process_history)
            description ==
                IF "description" \notin DOMAIN d THEN "None"
                ELSE d["description"].s
            i == Image(user_id, image_id, d["process"].s, processing_time,
                       description, process_history, parent_id)
        IN
        IF updated.raised # "none"
        THEN Outcome(imgs1, updated.users, updated.raised, "None")
        ELSE Outcome(Put(imgs1, image_id, i), updated.users, "none", "image_json")

update_description(imgs, usrs, image_id, description) ==
    IF image_id \in DOMAIN imgs
    THEN Outcome([imgs EXCEPT ![image_id].description = description], usrs,
                 "none", "image")
    ELSE Outcome(imgs, usrs, "none", "None")

\* image_to_json reads image.image_id and image.user_id of its argument:
\* the exception raised when the argument has no such attribute
image_to_json(image) ==
    IF {"image_id", "user_id"} \subseteq DOMAIN image THEN "none"
    ELSE "AttributeError"

PyBool(b) == [t |-> "bool", b |-> b]

\* remove_image that also deletes the children of the image
remove_image_cascade(imgs, usrs, image_id) ==
    LET removed == image_id \in DOMAIN imgs
        left == {j \in DOMAIN imgs : j # image_id /\ imgs[j].parent_id # image_id}
        imgs1 == IF ~removed THEN imgs
                 ELSE IF left = {} THEN EmptyDict
                 ELSE [j \in left |-> imgs[j]]
    IN  Outcome(imgs1, usrs, image_to_json(PyBool(removed)), "None")

remove_image(imgs, usrs, image_id) ==
    LET removed == image_id \in DOMAIN imgs
        imgs1 == IF removed THEN Remove(imgs, image_id) ELSE imgs
    IN  Outcome(imgs1, usrs, image_to_json(PyBool(removed)), "None")

(***************************************************************************)
(* The calls the model makes.                                              *)
(***************************************************************************)
NoInfo == [t |-> "absent", items |-> <<>>]

Call(op, user_id, image_info, image_id, process_history, text) ==
    [op |-> op, user_id |-> user_id, image_info |-> image_info,
     image_id |-> image_id, process_history |-> process_history, text |-> text]

\* a key of a dict: absent, or present with one of the values
Field(k, values) == {EmptyDict} \cup {(k :> v) : v \in values}

\* image_info dicts with every required key present and well typed
WellTypedInfos(ids, processes, descriptions) ==
    { PyDict(("image_id" :> StrV(i)) @@ ("image_data" :> StrV("data"))
             @@ ("processing_time" :> IntV(5)) @@ ("process" :> StrV(p))
             @@ par @@ des) :
        i \in ids, p \in processes,
        par \in Field("parent_id", {StrV(x) : x \in ids}),
        des \in Field("description", {StrV(x) : x \in descriptions}) }

\* image_info values with any combination of absent and ill-typed keys
IllFormedInfos ==
    {PyList} \cup
    { PyDict(a @@ b @@ c @@ e @@ par) :
        a \in Field("image_id", {StrV("a"), IntV(1)}),
        b \in Field("image_data", {StrV("data"), IntV(1)}),
        c \in Field("processing_time", {IntV(5), StrV("5")}),
        e \in Field("process", {StrV("upload"), StrV("_check_grayscale"),
                                StrV("nonexistent_fn"), IntV(1)}),
        par \in Field("parent_id", {StrV("a")}) }

\* the inputs of add_image under Spec
ImageInfos ==
    WellTypedInfos(ImageIds, {"upload", "blur"}, {})
        \cup {PyList,
              PyDict(("image_id" :> StrV("a")) @@ ("image_data" :> StrV("data"))
                     @@ ("processing_time" :> IntV(5))
                     @@ ("process" :> StrV("nonexistent_fn"))
                     @@ ("parent_id" :> StrV("a")))}

\* the inputs of add_image under SpecValidation
ValidationInfos ==
    WellTypedInfos({"a", "b"}, {"upload"}, Descriptions) \cup IllFormedInfos

Histories == UNION {[1..n -> ImageIds] : n \in 0..MaxHistoryArg}

\* the guards that keep the lists of the store within the model's bounds
WithinBounds(image_info) ==
    _image_parameter_check(image_info) = "none"
        /\ "parent_id" \in DOMAIN image_info.items
        /\ find_image(images, image_info.items["parent_id"]) # None
    => LET parent_image == find_image(images, image_info.items["parent_id"]) IN
       /\ Len(parent_image.process_history) < MaxHistory
       /\ Len(parent_image.child_ids) < MaxChildren

Done(c, out, kept) ==
    /\ call' = c
    /\ images' = out.images
    /\ users' = out.users
    /\ ret' = [raised |-> out.raised, value |-> out.value]
    /\ pristine' = (pristine /\ kept)
    /\ ncalls' = ncalls + 1
    /\ direct' = (direct \/ (c.op = "update_user_uploads" /\ out.raised = "none"))
    /\ recent' =
        IF c.op = "add_image" /\ out.raised = "none"
        THEN LET id == c.image_info.items["image_id"].s IN
             [recent EXCEPT ![c.user_id] =
                 Put(@, out.images[id].process_history[1], id)]
        ELSE recent
    /\ procs' = procs

\* the callers whose add_image calls may interleave, and a caller at rest
Procs == {"p1", "p2"}

Idle ==
    [pc |-> "start", user_id |-> "", image_info |-> NoInfo,
     process_history |-> <<>>, parent_image |-> None, user |-> None,
     raised |-> "none"]

Init ==
    /\ images = EmptyDict
    /\ users = EmptyDict
    /\ call = Call("__init__", "", NoInfo, "", <<>>, "")
    /\ ret = [raised |-> "none", value |-> "None"]
    /\ pristine = TRUE
    /\ ncalls = 0
    /\ direct = FALSE
    /\ recent = [u \in UserIds |-> EmptyDict]
    /\ procs = [p \in Procs |-> Idle]

AddImage(user_id, image_info) ==
    /\ WithinBounds(image_info)
    /\ LET out == add_image(images, users, user_id, image_info) IN
       Done(Call("add_image", user_id, image_info, "", <<>>, ""), out,
            out.raised = "none" =>
                image_info.items["image_id"].s \notin DOMAIN images)

AddUser(user_id) ==
    Done(Call("add_user", user_id, NoInfo, "", <<>>, ""),
         add_user(images, users, user_id), TRUE)

UpdateUserUploads(user_id, process_history) ==
    Done(Call("update_user_uploads", user_id, NoInfo, "", process_history, ""),
         update_user_uploads(images, users, user_id, process_history), TRUE)

UpdateDescription(image_id, description) ==
    Done(Call("update_description", "", NoInfo, image_id, <<>>, description),
         update_description(images, users, image_id, description), TRUE)

RemoveImage(image_id) ==
    Done(Call("remove_image", "", NoInfo, image_id, <<>>, ""),
         remove_image(images, users, image_id), image_id \notin DOMAIN images)

ValidProcess(process) ==
    Done(Call("valid_process", "", NoInfo, "", <<>>, process),
         Outcome(images, users, "none",
                 IF valid_process(process) THEN "True" ELSE "False"), TRUE)

Next ==
    \/ \E u \in UserIds, info \in ImageInfos :
            ncalls < MaxCalls /\ AddImage(u, info)
    \/ \E u \in UserIds : ncalls < MaxCalls /\ AddUser(u)
    \/ \E u \in UserIds, h \in Histories :
            ncalls < MaxCalls /\ UpdateUserUploads(u, h)
    \/ \E i \in ImageIds, t \in Descriptions :
            ncalls < MaxCalls /\ UpdateDescription(i, t)
    \/ \E i \in ImageIds : ncalls < MaxCalls /\ RemoveImage(i)

Spec == Init /\ [][Next]_vars

(***************************************************************************)
(* The validation of add_image's input and valid_process, over every       *)
(* combination of absent, ill-typed and unrecognised fields, on the stores *)
(* one user can build.                                                     *)
(***************************************************************************)
NextValidation ==
    \/ \E info \in ValidationInfos :
            ncalls < MaxValidationCalls /\ AddImage("u1", info)
    \/ ncalls < MaxValidationCalls /\ AddUser("u1")
    \/ \E p \in ProcessNames :
            ncalls < MaxValidationCalls /\ ValidProcess(p)

SpecValidation == Init /\ [][NextValidation]_vars

(***************************************************************************)
(* What the claims call a valid image_info: a dict whose required keys are *)
(* present and of the stated types.                                        *)
(***************************************************************************)
WellTyped(image_info) ==
    /\ image_info.t = "dict"
    /\ {"image_id", "image_data", "processing_time", "process"}
            \subseteq DOMAIN image_info.items
    /\ IsStr(image_info.items["image_id"])
    /\ IsStr(image_info.items["image_data"])
    /\ IsInt(image_info.items["processing_time"])
    /\ IsStr(image_info.items["process"])

\* the process names the specification recognises
RecognisedProcesses == PublicOperations \cup {"upload"}

WellFormed(image_info) ==
    WellTyped(image_info) /\ image_info.items["process"].s \in RecognisedProcesses

HasParent(image_info) == "parent_id" \in DOMAIN image_info.items

NewId(c) == c.image_info.items["image_id"].s

(***************************************************************************)
(* C1: add_image of a valid image_info without parent_id completes, for    *)
(* every user_id and store, and stores the image with process_history      *)
(* [image_id] and parent_id "root".                                        *)
(***************************************************************************)
C1_RootImageStored ==
    [][ (call'.op = "add_image" /\ WellFormed(call'.image_info)
            /\ ~HasParent(call'.image_info))
        => /\ ret'.raised = "none"
           /\ NewId(call') \in DOMAIN images'
           /\ images'[NewId(call')].process_history = <<NewId(call')>>
           /\ images'[NewId(call')].parent_id = "root" ]_vars

(***************************************************************************)
(* C2: add_image of a valid image_info whose parent_id names a stored      *)
(* image P stores the image with parent_id P, with P's stored history      *)
(* followed by the new id, and appends the new id to P's stored child_ids. *)
(***************************************************************************)
C2_ChildLinkedToParent ==
    [][ (call'.op = "add_image" /\ WellFormed(call'.image_info)
            /\ HasParent(call'.image_info)
            /\ call'.image_info.items["parent_id"].s \in DOMAIN images)
        => LET P == call'.image_info.items["parent_id"].s
               id == NewId(call')
           IN  /\ ret'.raised = "none"
               /\ id \in DOMAIN images'
               /\ images'[id].parent_id = P
               /\ images'[id].process_history
                    = Append(images[P].process_history, id)
               /\ P \in DOMAIN images'
               /\ images'[P].child_ids = Append(images[P].child_ids, id) ]_vars

(***************************************************************************)
(* C3: update_user_uploads with a user_id that is not in the store creates *)
(* the user, completes without raising, and leaves the user holding        *)
(* uploads[process_history[0]] == process_history[-1].                     *)
(***************************************************************************)
C3_LazyUserCreation ==
    [][ (call'.op = "update_user_uploads" /\ call'.process_history # <<>>
            /\ call'.user_id \notin DOMAIN users)
        => LET h == call'.process_history IN
           /\ ret'.raised = "none"
           /\ call'.user_id \in DOMAIN users'
           /\ h[1] \in DOMAIN users'[call'.user_id]
           /\ users'[call'.user_id][h[1]] = h[Len(h)] ]_vars

(***************************************************************************)
(* C4: for an existing user and a non-empty process_history,               *)
(* update_user_uploads sets uploads[process_history[0]] to                 *)
(* process_history[-1], leaves the user's other keys, every other user and *)
(* every image unchanged.                                                  *)
(***************************************************************************)
C4_UploadsUpdateFrame ==
    [][ (call'.op = "update_user_uploads" /\ call'.process_history # <<>>
            /\ call'.user_id \in DOMAIN users)
        => LET h == call'.process_history
               u == call'.user_id
           IN  /\ ret'.raised = "none"
               /\ DOMAIN users' = DOMAIN users
               /\ DOMAIN users'[u] = DOMAIN users[u] \cup {h[1]}
               /\ users'[u][h[1]] = h[Len(h)]
               /\ \A k \in DOMAIN users[u] \ {h[1]} : users'[u][k] = users[u][k]
               /\ \A v \in DOMAIN users \ {u} : users'[v] = users[v]
               /\ images' = images ]_vars

\* an update of a lineage of two ids, by a user who holds another lineage,
\* with another user and an image in the store
C4_Witness ==
    /\ call.op = "update_user_uploads"
    /\ ret.raised = "none"
    /\ Len(call.process_history) = 2
    /\ call.process_history[1] # call.process_history[2]
    /\ DOMAIN users[call.user_id] # {call.process_history[1]}
    /\ DOMAIN users # {call.user_id}
    /\ DOMAIN images # {}

(***************************************************************************)
(* C5: add_user raises a value error when the user_id is already stored,   *)
(* leaving that user's uploads and the rest of the store unchanged;        *)
(* otherwise it creates the user with an empty uploads mapping.            *)
(***************************************************************************)
C5_AddUserOnce ==
    [][ call'.op = "add_user"
        => LET u == call'.user_id IN
           /\ images' = images
           /\ IF u \in DOMAIN users
              THEN ret'.raised = "ValueError" /\ users' = users
              ELSE /\ ret'.raised = "none"
                   /\ DOMAIN users' = DOMAIN users \cup {u}
                   /\ users'[u] = EmptyDict
                   /\ \A v \in DOMAIN users : users'[v] = users[v] ]_vars

\* a second add_user of a user who holds uploads
C5_Witness ==
    /\ call.op = "add_user"
    /\ ret.raised = "ValueError"
    /\ call.user_id \in DOMAIN users
    /\ users[call.user_id] # EmptyDict

(***************************************************************************)
(* C6: remove_image of an id that matches no stored image returns a falsy  *)
(* or absent result, raises nothing and leaves the store unchanged.        *)
(***************************************************************************)
C6_RemoveAbsentReturns ==
    [][ (call'.op = "remove_image" /\ call'.image_id \notin DOMAIN images)
        => /\ ret'.raised = "none"
           /\ ret'.value \in {"None", "False"}
           /\ images' = images
           /\ users' = users ]_vars

(***************************************************************************)
(* C7: valid_process(name) is true exactly for "upload" and the names of   *)
(* the Filter Library's seven public operations, so add_image accepts a    *)
(* process field only from that set.                                       *)
(***************************************************************************)
C7_ValidProcessExactlyPublic ==
    /\ call.op = "valid_process"
        => (ret.value = "True" <=> call.text \in RecognisedProcesses)
    /\ (call.op = "add_image" /\ ret.raised = "none")
        => call.image_info.items["process"].s \in RecognisedProcesses

(***************************************************************************)
(* C8: add_image given a malformed image_info (not a mapping, a required   *)
(* key missing, a field of the wrong type, or a process name that          *)
(* valid_process does not recognise) raises and leaves the stored images,  *)
(* their child_ids and every user's uploads as they were.                  *)
(***************************************************************************)
Malformed(image_info) ==
    ~WellTyped(image_info) \/ ~valid_process(image_info.items["process"].s)

C8_ValidationBeforeMutation ==
    [][ (call'.op = "add_image" /\ Malformed(call'.image_info))
        => /\ ret'.raised # "none"
           /\ images' = images
           /\ users' = users ]_vars

\* a malformed dict that names a stored parent, from a stored user
C8_Witness ==
    /\ call.op = "add_image"
    /\ Malformed(call.image_info)
    /\ call.image_info.t = "dict"
    /\ HasParent(call.image_info)
    /\ call.image_info.items["parent_id"].s \in DOMAIN images
    /\ call.user_id \in DOMAIN users
    /\ ret.raised # "none"

(***************************************************************************)
(* C9: the error add_image's validation raises has the class of the first  *)
(* violated constraint: a type error for a value of the wrong type, an     *)
(* attribute/key error for a missing required key, a value error for an    *)
(* unrecognised process name.                                              *)
(***************************************************************************)
ExpectedError(image_info) ==
    IF image_info.t # "dict" THEN "TypeError"
    ELSE LET d == image_info.items
             Missing(k) == k \notin DOMAIN d
         IN
      IF Missing("image_id") THEN "AttributeError"
      ELSE IF ~IsStr(d["image_id"]) THEN "TypeError"
      ELSE IF Missing("image_data") THEN "AttributeError"
      ELSE IF ~IsStr(d["image_data"]) THEN "TypeError"
      ELSE IF Missing("processing_time") THEN "AttributeError"
      ELSE IF ~IsInt(d["processing_time"]) THEN "TypeError"
      ELSE IF Missing("process") THEN "AttributeError"
      ELSE IF ~IsStr(d["process"]) THEN "TypeError"
      ELSE IF ~valid_process(d["process"].s) THEN "ValueError"
      ELSE "none"

C9_ErrorKindByConstraint ==
    (call.op = "add_image" /\ ExpectedError(call.image_info) # "none")
        => ret.raised = ExpectedError(call.image_info)

(***************************************************************************)
(* C10: in every reachable state every stored Image has a non-empty        *)
(* process_history whose last entry is its own image_id and whose first    *)
(* entry is the image_id of a stored image with parent_id "root", and the  *)
(* history of an image with a non-root parent is one entry longer than its *)
(* parent's.                                                               *)
(***************************************************************************)
EndsAtSelf(i) ==
    LET h == images[i].process_history IN h # <<>> /\ h[Len(h)] = i

StartsAtStoredRoot(i) ==
    LET h == images[i].process_history IN
    h[1] \in DOMAIN images /\ images[h[1]].parent_id = "root"

OneLongerThanParent(i) ==
    images[i].parent_id # "root"
        => /\ images[i].parent_id \in DOMAIN images
           /\ Len(images[i].process_history)
                = Len(images[images[i].parent_id].process_history) + 1

C10_LineageInvariant ==
    \A i \in DOMAIN images :
        EndsAtSelf(i) /\ StartsAtStoredRoot(i) /\ OneLongerThanParent(i)

(***************************************************************************)
(* C10, amended: every stored Image has a non-empty process_history whose  *)
(* last entry is its own image_id; and as long as no stored image has been *)
(* removed or replaced by an add_image of its own image_id, the first      *)
(* entry names a stored image with parent_id "root" and the history of an  *)
(* image with a non-root parent is one entry longer than its parent's.     *)
(***************************************************************************)
C10_LineageWhileNothingReplaced ==
    \A i \in DOMAIN images :
        /\ EndsAtSelf(i)
        /\ pristine => StartsAtStoredRoot(i) /\ OneLongerThanParent(i)

\* a child has just been stored under its parent, nothing removed or replaced
C10_Witness ==
    /\ call.op = "add_image"
    /\ ret.raised = "none"
    /\ pristine
    /\ images[NewId(call)].parent_id # "root"
    /\ Len(images[NewId(call)].process_history) = 2

(***************************************************************************)
(* C11: in every reachable state, every key k of every stored user's       *)
(* uploads mapping is the first entry of the process_history of some       *)
(* stored Image.                                                           *)
(***************************************************************************)
KeyHasLineage(k) ==
    \E i \in DOMAIN images : images[i].process_history[1] = k

C11_UploadKeysHaveImages ==
    \A u \in DOMAIN users : \A k \in DOMAIN users[u] : KeyHasLineage(k)

(***************************************************************************)
(* C11, amended: as long as no stored image has been removed or replaced   *)
(* by an add_image of its own image_id, and update_user_uploads has only   *)
(* been called by add_image, every key k of every stored user's uploads    *)
(* mapping is the first entry of the process_history of a stored Image.    *)
(***************************************************************************)
C11_UploadKeysWhileUndisturbed ==
    (pristine /\ ~direct) => C11_UploadKeysHaveImages

\* two users hold keys, one of them for a lineage of two images
C11_Witness ==
    /\ pristine /\ ~direct
    /\ \A u \in UserIds : u \in DOMAIN users /\ users[u] # EmptyDict
    /\ \E i \in DOMAIN images : Len(images[i].process_history) = 2

(***************************************************************************)
(* C15: after any sequence of calls in which update_user_uploads is only   *)
(* called by add_image, for every user u and lineage root r in which u has *)
(* successfully added an image, u.uploads[r] is the image_id of the image  *)
(* u added most recently with a process_history starting with r.           *)
(***************************************************************************)
C15_UploadsTrackMostRecent ==
    ~direct =>
        \A u \in UserIds : \A r \in DOMAIN recent[u] :
            /\ u \in DOMAIN users
            /\ r \in DOMAIN users[u]
            /\ users[u][r] = recent[u][r]

\* a user has added a second image to a lineage, after its root
C15_Witness ==
    /\ ~direct
    /\ call.op = "add_image" /\ ret.raised = "none"
    /\ \E r \in DOMAIN recent[call.user_id] :
        /\ recent[call.user_id][r] # r
        /\ recent[call.user_id][r] = call.image_info.items["image_id"].s

(***************************************************************************)
(* C12: once an Image is stored, no later call (another add_image with the *)
(* same image_id included) changes its user_id, parent_id,                 *)
(* process_history, process or processing_time while it stays stored; the  *)
(* only changes are an id appended to child_ids and a new description.     *)
(***************************************************************************)
SameCore(old, new) ==
    /\ new.user_id = old.user_id
    /\ new.parent_id = old.parent_id
    /\ new.process_history = old.process_history
    /\ new.process = old.process
    /\ new.processing_time = old.processing_time

C12_CoreFieldsImmutable ==
    [][ \A i \in DOMAIN images \cap DOMAIN images' :
            /\ SameCore(images[i], images'[i])
            /\ \/ images'[i].child_ids = images[i].child_ids
               \/ \E x \in ImageIds :
                    images'[i].child_ids = Append(images[i].child_ids, x) ]_vars

(***************************************************************************)
(* C13: add_image with a parent_id that names no stored image raises and   *)
(* leaves images and users unchanged; so an add_image that stores an image *)
(* with a parent found that parent in the store.                           *)
(***************************************************************************)
C13_MissingParentRaises ==
    [][ (call'.op = "add_image" /\ call'.image_info.t = "dict"
            /\ HasParent(call'.image_info))
        => LET P == call'.image_info.items["parent_id"] IN
           /\ find_image(images, P) = None
                => /\ ret'.raised # "none"
                   /\ images' = images
                   /\ users' = users
           /\ ret'.raised = "none" => P.s \in DOMAIN images ]_vars

\* a valid image_info from a stored user, naming a parent that is not stored
\* while another image is
C13_Witness ==
    /\ call.op = "add_image"
    /\ WellFormed(call.image_info)
    /\ HasParent(call.image_info)
    /\ call.image_info.items["parent_id"].s \notin DOMAIN images
    /\ call.user_id \in DOMAIN users
    /\ DOMAIN images # {}
    /\ pristine
    /\ ret.raised = "AttributeError"

(***************************************************************************)
(* C16: remove_image of a stored image deletes exactly that record: every  *)
(* other image (its parent's child_ids, its children's parent_id and       *)
(* process_history) and every user's uploads stay as they were.            *)
(***************************************************************************)
C16_RemoveDoesNotCascade ==
    [][ (call'.op = "remove_image" /\ call'.image_id \in DOMAIN images)
        => /\ DOMAIN images' = DOMAIN images \ {call'.image_id}
           /\ \A j \in DOMAIN images' : images'[j] = images[j]
           /\ users' = users ]_vars

\* the removed image is still named by a stored child and by a user's uploads
C16_Witness ==
    /\ call.op = "remove_image"
    /\ ~pristine
    /\ call.image_id \notin DOMAIN images
    /\ \E j \in DOMAIN images :
        /\ images[j].parent_id = call.image_id
        /\ images[j].process_history[1] = call.image_id
    /\ \E u \in DOMAIN users : call.image_id \in DOMAIN users[u]

(***************************************************************************)
(* C18: whenever add_image raises, whatever the failure, no user has been  *)
(* created or updated, no child_ids has gained an entry and no image has   *)
(* been stored.                                                            *)
(***************************************************************************)
C18_AddImageAllOrNothing ==
    [][ (call'.op = "add_image" /\ ret'.raised # "none")
        => images' = images /\ users' = users ]_vars

(***************************************************************************)
(* C19: add_image with parent_id P leaves P's stored process_history,      *)
(* parent_id, user_id, process and description as they were.               *)
(***************************************************************************)
C19_ParentKeepsItsFields ==
    [][ (call'.op = "add_image" /\ call'.image_info.t = "dict"
            /\ HasParent(call'.image_info)
            /\ find_image(images, call'.image_info.items["parent_id"]) # None)
        => LET P == call'.image_info.items["parent_id"].s IN
           /\ P \in DOMAIN images'
           /\ SameCore(images[P], images'[P])
           /\ images'[P].description = images[P].description ]_vars

(***************************************************************************)
(* processing.py: the checks each operation of the Filter Library makes on *)
(* its input before it calls the imaging library.  An input is its type    *)
(* and, for an array, its shape.  Each operation is the exception its      *)
(* checks raise, "none" when the input is passed on.                       *)
(***************************************************************************)
Dims == {1, 3}

Arrays == {[type |-> "ndarray", shape |-> sh] :
            sh \in UNION {[1..n -> Dims] : n \in 0..MaxRank}}

NonArrays == {[type |-> t, shape |-> <<>>] : t \in {"list", "NoneType", "str"}}

FilterInputs == Arrays \cup NonArrays

_check_image_type(image) ==
    IF image.type # "ndarray" THEN "TypeError" ELSE "none"

\* _check_image_shape that lets only rank 2 through
_check_image_shape_rank2(image) ==
    IF Len(image.shape) # 2 THEN "ValueError" ELSE "none"

_check_image_shape(image) ==
    IF Len(image.shape) # 2 /\ Len(image.shape) # 3 THEN "ValueError"
    ELSE "none"

_check_grayscale(image) ==
    IF Len(image.shape) = 3 THEN "GrayscaleError" ELSE "none"

\* statements in sequence: the first exception raised
Then(first, rest) == IF first # "none" THEN first ELSE rest

hist_eq(image) ==
    Then(_check_image_type(image),
         Then(_check_image_shape(image), _check_grayscale(image)))

contrast_stretch(image) ==
    Then(_check_image_type(image), _check_image_shape(image))

log_compression(image) ==
    Then(_check_image_type(image), _check_image_shape(image))

reverse_video(image) ==
    Then(_check_image_type(image),
         Then(_check_image_shape(image), _check_grayscale(image)))

blur(image) ==
    Then(_check_image_type(image), _check_image_shape(image))

sharpen(image) ==
    Then(_check_image_type(image),
         Then(_check_image_shape(image), blur(image)))

histogram_gray(image) ==
    Then(_check_image_type(image), _check_image_shape(image))

Processing(op, image) ==
    CASE op = "hist_eq" -> hist_eq(image)
      [] op = "contrast_stretch" -> contrast_stretch(image)
      [] op = "log_compression" -> log_compression(image)
      [] op = "reverse_video" -> reverse_video(image)
      [] op = "blur" -> blur(image)
      [] op = "sharpen" -> sharpen(image)
      [] op = "histogram_gray" -> histogram_gray(image)

Filter(op, image) ==
    /\ call' = [op |-> op, image |-> image]
    /\ ret' = [raised |-> Processing(op, image), value |-> "None"]
    /\ UNCHANGED <<images, users, pristine, ncalls, direct, recent, procs>>

NextFilter == \E op \in PublicOperations, image \in FilterInputs : Filter(op, image)

SpecFilter == Init /\ [][NextFilter]_vars

(***************************************************************************)
(* C14: every Filter Library operation checks type, then rank, then        *)
(* grayscale: a non-array raises a type error, an array of rank other than *)
(* 2 or 3 a value error, hist_eq and reverse_video raise the grayscale     *)
(* error for every rank-3 array, and the other operations accept rank 3.   *)
(***************************************************************************)
GrayscaleOnly == {"hist_eq", "reverse_video"}

C14_FilterCheckOrder ==
    call.op \in PublicOperations
        => ret.raised =
            IF call.image.type # "ndarray" THEN "TypeError"
            ELSE IF Len(call.image.shape) \notin {2, 3} THEN "ValueError"
            ELSE IF Len(call.image.shape) = 3 /\ call.op \in GrayscaleOnly
                 THEN "GrayscaleError"
            ELSE "none"

\* a rank-3 array refused by a grayscale-only operation
C14_Witness ==
    /\ call.op = "reverse_video"
    /\ call.image.type = "ndarray"
    /\ Len(call.image.shape) = 3
    /\ ret.raised = "GrayscaleError"

(***************************************************************************)
(* database.py: find_image_parent, and the stores one user builds when     *)
(* "root" is among the image ids callers use.                              *)
(***************************************************************************)
find_image_parent(imgs, usrs, image_id) ==
    LET image == find_image(imgs, StrV(image_id)) IN
    IF image = None
    THEN \* image.parent_id of None
         Outcome(imgs, usrs, "AttributeError", "None")
    ELSE LET parent_image == find_image(imgs, StrV(image.parent_id)) IN
         Outcome(imgs, usrs, "none",
                 IF parent_image = None THEN "None" ELSE "image")

FindImageParent(image_id) ==
    Done(Call("find_image_parent", "", NoInfo, image_id, <<>>, ""),
         find_image_parent(images, users, image_id), TRUE)

SentinelIds == {"a", "root"}

NextSentinel ==
    \/ \E info \in WellTypedInfos(SentinelIds, {"upload"}, {}) :
            ncalls < MaxSentinelCalls /\ AddImage("u1", info)
    \/ ncalls < MaxSentinelCalls /\ AddUser("u1")
    \/ \E i \in SentinelIds \cup {"b"} :
            ncalls < MaxSentinelCalls /\ FindImageParent(i)

SpecSentinel == Init /\ [][NextSentinel]_vars

(***************************************************************************)
(* C20: the parent sentinel "root" never resolves to a stored image:       *)
(* find_image_parent of a stored image whose parent_id is "root" returns   *)
(* none, and an add_image without parent_id, or with parent_id "root",     *)
(* adds a child to no stored image.                                        *)
(***************************************************************************)
C20_RootNeverResolves ==
    [][ /\ (call'.op = "find_image_parent"
                /\ call'.image_id \in DOMAIN images'
                /\ images'[call'.image_id].parent_id = "root")
            => ret'.raised = "none" /\ ret'.value = "None"
        /\ (call'.op = "add_image" /\ call'.image_info.t = "dict"
                /\ (HasParent(call'.image_info)
                        => call'.image_info.items["parent_id"] = StrV("root")))
            => \A j \in DOMAIN images \cap DOMAIN images' :
                    images'[j].child_ids = images[j].child_ids ]_vars

(***************************************************************************)
(* database.py: two callers inside add_image at the same time.  The store  *)
(* serialises single reads and writes and nothing more, so a call is a     *)
(* sequence of steps, one per store access; between two steps of a caller  *)
(* the other caller may take steps.  What a caller read stays in its local *)
(* variables, and save() writes the whole document it holds.               *)
(***************************************************************************)
\* the append left out
AppendChild_forgotten(parent_image, child_id) == parent_image

\* line 111: the append to the copy of the parent the caller holds
AppendChild(parent_image, child_id) ==
    [parent_image EXCEPT !.child_ids = Append(@, child_id)]

Local(p, changes) == [procs EXCEPT ![p] = changes @@ @]

Raise(p, kind) == Local(p, ("pc" :> "done") @@ ("raised" :> kind))

Ghosts == <<call, ret, pristine, ncalls, direct, recent>>

\* lines 45-60: the call is made and image_info is checked
Begin(p, user_id, image_info) ==
    /\ procs[p].pc = "start"
    /\ LET checked == _image_parameter_check(image_info)
           started == ("user_id" :> user_id) @@ ("image_info" :> image_info)
       IN  procs' =
             IF checked # "none"
             THEN Local(p, started @@ ("pc" :> "done") @@ ("raised" :> checked))
             ELSE IF "parent_id" \in DOMAIN image_info.items
             THEN Local(p, started @@ ("pc" :> "read_parent"))
             ELSE Local(p, started @@ ("pc" :> "find_user")
                        @@ ("process_history" :>
                                <<image_info.items["image_id"].s>>))
    /\ UNCHANGED <<images, users, Ghosts>>

\* lines 62-64: the parent is read and its history extended locally
ReadParent(p) ==
    /\ procs[p].pc = "read_parent"
    /\ LET d == procs[p].image_info.items
           parent_image == find_image(images, d["parent_id"])
       IN  procs' =
             IF parent_image = None
             THEN Raise(p, "AttributeError")
             ELSE Local(p, ("pc" :> "child_read")
                        @@ ("process_history" :>
                              InheritedHistory(parent_image, d["image_id"].s)))
    /\ UNCHANGED <<images, users, Ghosts>>

\* lines 109-111: _add_child reads the parent again and appends locally
ChildRead(p) ==
    /\ procs[p].pc = "child_read"
    /\ LET d == procs[p].image_info.items
           parent_image == find_image(images, d["parent_id"])
       IN  procs' =
             IF parent_image # None
             THEN Local(p, ("pc" :> "child_save")
                        @@ ("parent_image" :>
                              AppendChild(parent_image, d["image_id"].s)))
             ELSE Local(p, ("pc" :> "find_user"))
    /\ UNCHANGED <<images, users, Ghosts>>

\* line 112: the caller's copy of the parent replaces the stored document
ChildSave(p) ==
    /\ procs[p].pc = "child_save"
    /\ images' = Put(images, procs[p].parent_image.image_id,
                     procs[p].parent_image)
    /\ procs' = Local(p, ("pc" :> "find_user"))
    /\ UNCHANGED <<users, Ghosts>>

\* line 205: update_user_uploads reads the user
FindUser(p) ==
    /\ procs[p].pc = "find_user"
    /\ LET user == find_user(users, procs[p].user_id) IN
       procs' = Local(p, ("user" :> user)
                      @@ ("pc" :> IF user = None THEN "add_user"
                                  ELSE "user_save"))
    /\ UNCHANGED <<images, users, Ghosts>>

\* lines 185-187: add_user looks the user up once more
AddUserFind(p) ==
    /\ procs[p].pc = "add_user"
    /\ procs' = IF find_user(users, procs[p].user_id) # None
                THEN Raise(p, "ValueError")
                ELSE Local(p, ("pc" :> "add_user_save"))
    /\ UNCHANGED <<images, users, Ghosts>>

\* lines 189-190, 207: the new user is saved; .uploads of the json dict
AddUserSave(p) ==
    /\ procs[p].pc = "add_user_save"
    /\ users' = Put(users, procs[p].user_id, EmptyDict)
    /\ procs' = Raise(p, "AttributeError")
    /\ UNCHANGED <<images, Ghosts>>

\* lines 207-208: the entry is set on the caller's copy, which is saved
UserSave(p) ==
    /\ procs[p].pc = "user_save"
    /\ LET h == procs[p].process_history IN
       users' = Put(users, procs[p].user_id,
                    Put(procs[p].user.uploads, h[1], h[Len(h)]))
    /\ procs' = Local(p, ("pc" :> "image_save"))
    /\ UNCHANGED <<images, Ghosts>>

\* lines 87-97: the new Image is built and saved
ImageSave(p) ==
    /\ procs[p].pc = "image_save"
    /\ LET d == procs[p].image_info.items
           i == Image(procs[p].user_id, d["image_id"].s, d["process"].s,
                      IF "processing_time" \in DOMAIN d
                      THEN d["processing_time"].n ELSE -1,
                      IF "description" \notin DOMAIN d THEN "None"
                      ELSE d["description"].s,
                      procs[p].process_history,
                      IF "parent_id" \in DOMAIN d THEN d["parent_id"].s
                      ELSE "root")
       IN  images' = Put(images, d["image_id"].s, i)
    /\ procs' = Local(p, ("pc" :> "done"))
    /\ UNCHANGED <<users, Ghosts>>

\* what the two callers pass: children "b" and "c" of the image "a"
ConcurrentInfos ==
    {PyList} \cup
    { PyDict(("image_id" :> StrV(i)) @@ ("image_data" :> StrV("data"))
             @@ ("processing_time" :> IntV(5)) @@ ("process" :> StrV("upload"))
             @@ ("parent_id" :> StrV("a"))) : i \in {"b", "c"} }

\* the root image "a", uploaded before the callers start
RootInfos ==
    {info \in WellTypedInfos({"a"}, {"upload"}, {}) : ~HasParent(info)}

NotStarted == \A p \in Procs : procs[p].pc = "start"

NextConcurrent ==
    \/ \E info \in RootInfos :
            NotStarted /\ ncalls < MaxSetupCalls /\ AddImage("u1", info)
    \/ NotStarted /\ ncalls < MaxSetupCalls /\ AddUser("u1")
    \/ \E p \in Procs, u \in UserIds, info \in ConcurrentInfos :
            Begin(p, u, info)
    \/ \E p \in Procs : ReadParent(p)
    \/ \E p \in Procs : ChildRead(p)
    \/ \E p \in Procs : ChildSave(p)
    \/ \E p \in Procs : FindUser(p)
    \/ \E p \in Procs : AddUserFind(p)
    \/ \E p \in Procs : AddUserSave(p)
    \/ \E p \in Procs : UserSave(p)
    \/ \E p \in Procs : ImageSave(p)

SpecConcurrent == Init /\ [][NextConcurrent]_vars

\* both callers returned from add_image without an exception, having passed
\* different child ids under the same stored parent
BothCompleted ==
    /\ \A p \in Procs : procs[p].pc = "done" /\ procs[p].raised = "none"
    /\ procs["p1"].image_info # procs["p2"].image_info

ChildOf(p) == procs[p].image_info.items["image_id"].s

(***************************************************************************)
(* C17: add_image calls are not guarded against interleaving.  When two    *)
(* callers have both completed add_image for different children of the     *)
(* same stored parent, both children are stored, and the parent's          *)
(* child_ids holds each of them at most once and at least one of them:     *)
(* both in either order, or, when one caller's save of the parent          *)
(* overwrote the other's, only one.                                        *)
(***************************************************************************)
C17_InterleavedAddImage ==
    BothCompleted =>
        /\ {ChildOf("p1"), ChildOf("p2")} \subseteq DOMAIN images
        /\ "a" \in DOMAIN images
        /\ images["a"].child_ids \in
            { <<ChildOf("p1"), ChildOf("p2")>>, <<ChildOf("p2"), ChildOf("p1")>>,
              <<ChildOf("p1")>>, <<ChildOf("p2")>> }

\* the lost update: both calls completed, both children are stored, and the
\* parent lists only one of them
C17_Witness ==
    /\ BothCompleted
    /\ {ChildOf("p1"), ChildOf("p2")} \subseteq DOMAIN images
    /\ Len(images["a"].child_ids) = 1

====
